---- MODULE Spec2Model ----
(***************************************************************************)
(* gis2mesh.py: the orchestrator that calls gis2triangle.py, appends the   *)
(* area constraints to mesh.poly, runs Triangle, calls triangle2adcirc.py, *)
(* removes the temporary files and calls adcirc2wkt.py.                    *)
(*                                                                         *)
(* The script is one sequential module body; pc is its position.  Every    *)
(* subprocess.call is two steps: the child is started (the script then     *)
(* blocks in call) and the child terminates (call returns; the script      *)
(* discards the returned exit status).                                     *)
(*                                                                         *)
(* Assumed of the environment: the working directory holds none of the     *)
(* files the run writes, no file is named 'none', the Python interpreter   *)
(* and the Triangle binaries are installed, and no signal is delivered.    *)
(***************************************************************************)
EXTENDS Integers, Sequences, FiniteSets, TLC

VARIABLES
  argc,          \* len(sys.argv)
  pputilsSet,    \* whether os.environ holds PPUTILS
  version_info,  \* sys.version_info, <<major, minor>>
  platform,      \* <<os.name, os.uname()[4]>>
  areas_file,    \* sys.argv[10]
  areasLines,    \* the lines of areas.csv; a line is a row <<x, y, area>> or Blank
  pc,            \* position in the module body
  pputils_path,  \* "unset" until line 87/89 assigns it
  pystr,         \* "undefined" until line 94/97 assigns it
  running,       \* the child processes that are alive
  files,         \* the files of the working directory that the run wrote and that exist
  polyBuilt,     \* mesh.poly holds the PSLG blocks gis2triangle.py wrote
  areaBlock,     \* what lines 139-151 appended to mesh.poly: <<>> or <<[count, recs]>>
  engineArgs,    \* the switches Triangle was started with, "" when it was not
  direct,        \* per helper: "untried", "ok" (started directly) or "raised"
  via,           \* per helper: "none", "script" or "interp" (how it was started)
  result,        \* per stage: "none", "ok" or "fail" (how its process ended)
  log,           \* history: starts, exits, reads, the append and the removals, in order
  stdout,        \* what the script itself printed that matters: "", "usage", "os"
  exc,           \* the uncaught exception that ended the script, "none" otherwise
  exitStatus     \* the script's exit status, meaningful once pc = "done"

vars == <<argc, pputilsSet, version_info, platform, areas_file, areasLines, pc,
          pputils_path, pystr, running, files, polyBuilt, areaBlock, engineArgs,
          direct, via, result, log, stdout, exc, exitStatus>>

env == <<argc, pputilsSet, version_info, platform, areas_file, areasLines>>

----------------------------------------------------------------------------
\* Bounds of the model.

\* longest areas file, in lines
MaxLines == 2

\* number of distinct area rows a line can hold
NumRows == 2

----------------------------------------------------------------------------
\* Program constants and names.

ArgcExpected == 13

NoneToken == "none"

AreasCsv == "areas.csv"

PolyFile == "mesh.poly"

OutputFile == "mesh.grd"

\* output_file.rsplit('.',1)[0] + 'WKT.csv'
WktFile == "meshWKT.csv"

Builder == "gis2triangle"

Engine == "triangle"

Converter == "triangle2adcirc"

Vector == "adcirc2wkt"

Helpers == {Builder, Converter, Vector}

Stages == {Builder, Engine, Converter, Vector}

Blank == <<>>

Rows == {<<c, c + 1, c + 2>> : c \in 1..NumRows}

Platforms ==
  ({"posix"} \X {"i686", "x86_64", "armv7l", "aarch64"})
    \cup {<<"nt", "AMD64">>, <<"java", "x86_64">>}

Versions == {<<2, 6>>, <<2, 7>>, <<3, 8>>}

AreasFiles ==
  UNION {[1..n -> Rows \cup {Blank}] : n \in 0..MaxLines}

\* a cleanup that forgets the copy of the PSLG that Triangle writes
TempFilesWithoutEnginePoly == <<"mesh.poly", "mesh.1.node", "mesh.1.ele">>

TempFiles == <<"mesh.poly", "mesh.1.poly", "mesh.1.node", "mesh.1.ele">>

Range(q) == {q[i] : i \in 1..Len(q)}

Ev(kind, who, file) == [ev |-> kind, who |-> who, file |-> file]

----------------------------------------------------------------------------
\* Pure functions of the script.

\* sys.version_info > t for a 2-tuple t: the 5-tuple sys.version_info is the
\* greater one when its first two fields equal t.
VersionGT(v, t) == v[1] > t[1] \/ (v[1] = t[1] /\ v[2] >= t[2])

\* lines 85-97: pystr is assigned only in the except branch of the PPUTILS lookup
PystrFor(set, v) ==
  IF set THEN "undefined"
  ELSE IF VersionGT(v, <<3, 0>>) THEN "python3"
  ELSE IF VersionGT(v, <<2, 7>>) THEN "python"
  ELSE "undefined"

PathFor(set) == IF set THEN "$PPUTILS" ELSE "curdir"

\* np.loadtxt(..., unpack=True): blank lines are skipped; no row gives an empty
\* array, one row a 1-D array of its 3 fields, n >= 2 rows a 3 x n array.
\* A field is the number parsed from the text, which str() writes back.
LoadTxt(lines) ==
  LET rows == SelectSeq(lines, LAMBDA l : l # Blank)
  IN  IF Len(rows) = 0 THEN [ndim |-> 1, data |-> <<>>]
      ELSE IF Len(rows) = 1 THEN [ndim |-> 1, data |-> rows[1]]
      ELSE [ndim |-> 2,
            data |-> [c \in 1..3 |-> [i \in 1..Len(rows) |-> rows[i][c]]]]

\* len(open(areas_file).readlines())
NumAreas(lines) == Len(lines)

AreaRec(id, x, y, a) == [id |-> id, x |-> x, y |-> y, attr |-> 0, area |-> a]

\* lines 143-151: the records written, and whether an index raised IndexError
\* (the with block closes the file, so what was written before stays).
WriteRecords(num, arr) ==
  IF num = 1
  THEN IF Len(arr.data) = 0
       THEN [recs |-> <<>>, err |-> TRUE]
       ELSE [recs |-> <<AreaRec(1, arr.data[1], arr.data[2], arr.data[3])>>,
             err |-> FALSE]
  ELSE LET n == IF arr.ndim = 2 THEN Len(arr.data[1]) ELSE 0
           k == IF num < n THEN num ELSE n
       IN  [recs |-> [i \in 1..k |->
                        AreaRec(i, arr.data[1][i], arr.data[2][i], arr.data[3][i])],
            err |-> num > k]

\* lines 154-174: the binary the platform dispatch starts; "skip" when no
\* branch of the posix if/elif chain matches, "exit" in the final else.
BinaryFor(pf) ==
  IF pf[1] = "posix"
  THEN CASE pf[2] = "i686" -> "triangle_32"
         [] pf[2] = "x86_64" -> "triangle_64"
         [] pf[2] = "armv7l" -> "triangle_pi32"
         [] OTHER -> "skip"
  ELSE IF pf[1] = "nt" THEN "triangle_32.exe"
  ELSE "exit"

\* the files a stage is given to read and the files it writes (its arguments
\* at lines 119-121, 164-170, 179-180, 197; Triangle names its output mesh.1.*)
Inputs(s) ==
  CASE s = Builder -> <<>>
    [] s = Engine -> <<PolyFile>>
    [] s = Converter -> <<"mesh.1.node", "mesh.1.ele">>
    [] s = Vector -> <<OutputFile>>

Outputs(s) ==
  CASE s = Builder -> {PolyFile}
    [] s = Engine -> {"mesh.1.poly", "mesh.1.node", "mesh.1.ele"}
    [] s = Converter -> {OutputFile}
    [] s = Vector -> {WktFile}

\* a module body that runs Triangle before the area block is appended
AfterEngineFirst(p) ==
  CASE p = "setup" -> "args"
    [] p = "args" -> "builder"
    [] p = "builder" -> "engine"
    [] p = "engine" -> "areas"
    [] p = "areas" -> "convert"
    [] p = "convert" -> "cleanup"
    [] p = "cleanup" -> "wkt"
    [] p = "wkt" -> "done"

\* the order of the statements of the module body
After(p) ==
  CASE p = "setup" -> "args"
    [] p = "args" -> "builder"
    [] p = "builder" -> "areas"
    [] p = "areas" -> "engine"
    [] p = "engine" -> "convert"
    [] p = "convert" -> "cleanup"
    [] p = "cleanup" -> "wkt"
    [] p = "wkt" -> "done"

\* the position of the script while subprocess.call blocks
WaitPc(p) ==
  CASE p = "builder" -> "builder_wait"
    [] p = "engine" -> "engine_wait"
    [] p = "convert" -> "convert_wait"
    [] p = "wkt" -> "wkt_wait"

----------------------------------------------------------------------------
\* The state after the interpreter has loaded the script.

Init ==
  /\ argc \in {ArgcExpected, ArgcExpected - 2}
  /\ pputilsSet \in BOOLEAN
  /\ version_info \in Versions
  /\ platform \in Platforms
  /\ \/ areas_file = NoneToken /\ areasLines = <<>>
     \/ areas_file = AreasCsv /\ areasLines \in AreasFiles
  /\ pc = "setup"
  /\ pputils_path = "unset"
  /\ pystr = "undefined"
  /\ running = {}
  /\ files = {}
  /\ polyBuilt = FALSE
  /\ areaBlock = <<>>
  /\ engineArgs = ""
  /\ direct = [h \in Helpers |-> "untried"]
  /\ via = [h \in Helpers |-> "none"]
  /\ result = [s \in Stages |-> "none"]
  /\ log = <<>>
  /\ stdout = ""
  /\ exc = "none"
  /\ exitStatus = 0

----------------------------------------------------------------------------
\* Ways the script ends.

\* an uncaught exception: traceback, exit status 1
Raise(e) == pc' = "done" /\ exc' = e /\ exitStatus' = 1

\* sys.exit() without an argument: exit status 0
SysExit == pc' = "done" /\ exc' = exc /\ exitStatus' = 0

\* the next statement
Goto(p) == pc' = p /\ exc' = exc /\ exitStatus' = exitStatus

----------------------------------------------------------------------------
\* The statements of the module body.

\* lines 83-97
Setup ==
  /\ pc = "setup"
  /\ pputils_path' = PathFor(pputilsSet)
  /\ pystr' = PystrFor(pputilsSet, version_info)
  /\ Goto(After("setup"))
  /\ UNCHANGED <<env, running, files, polyBuilt, areaBlock, engineArgs, direct,
                 via, result, log, stdout>>

\* lines 100-111
CheckArgs ==
  /\ pc = "args"
  /\ IF argc = ArgcExpected
     THEN Goto(After("args")) /\ stdout' = stdout
     ELSE SysExit /\ stdout' = "usage"
  /\ UNCHANGED <<env, pputils_path, pystr, running, files, polyBuilt, areaBlock,
                 engineArgs, direct, via, result, log>>

\* try: subprocess.call([script, ...]) except: subprocess.call([pystr, script, ...])
\* up to the start of the child.  Starting the script directly raises OSError
\* when it is not an executable on the PATH; the bare except then evaluates pystr.
CallHelper(s, p) ==
  /\ pc = p
  /\ \E ok \in BOOLEAN :
       IF ok
       THEN /\ direct' = [direct EXCEPT ![s] = "ok"]
            /\ via' = [via EXCEPT ![s] = "script"]
            /\ running' = running \cup {s}
            /\ log' = Append(log, Ev("start", s, ""))
            /\ Goto(WaitPc(p))
       ELSE IF pystr = "undefined"
       THEN /\ direct' = [direct EXCEPT ![s] = "raised"]
            /\ Raise("NameError")
            /\ UNCHANGED <<via, running, log>>
       ELSE /\ direct' = [direct EXCEPT ![s] = "raised"]
            /\ via' = [via EXCEPT ![s] = "interp"]
            /\ running' = running \cup {s}
            /\ log' = Append(log, Ev("start", s, ""))
            /\ Goto(WaitPc(p))
  /\ UNCHANGED <<env, pputils_path, pystr, files, polyBuilt, areaBlock,
                 engineArgs, result, stdout>>

\* whether the child can end well: its input files exist, and Triangle needs
\* the PSLG blocks and an area block whose count is its number of records
CanSucceed(s) ==
  /\ Range(Inputs(s)) \subseteq files
  /\ s = Engine =>
       /\ polyBuilt
       /\ areaBlock # <<>>
       /\ areaBlock[1].count = Len(areaBlock[1].recs)

\* the child terminates and subprocess.call returns; the script drops the
\* returned status and goes on to the next statement
ChildExit(s, p) ==
  /\ pc = WaitPc(p)
  /\ s \in running
  /\ \E o \in {"ok", "fail"} :
       /\ o = "ok" => CanSucceed(s)
       /\ result' = [result EXCEPT ![s] = o]
       /\ files' = IF o = "ok" THEN files \cup Outputs(s) ELSE files
       /\ polyBuilt' = (polyBuilt \/ (s = Builder /\ o = "ok"))
       /\ log' = log
                 \o [i \in 1..Len(SelectSeq(Inputs(s), LAMBDA f : f \in files)) |->
                       Ev("read", s, SelectSeq(Inputs(s), LAMBDA f : f \in files)[i])]
                 \o <<Ev("exit", s, "")>>
  /\ running' = running \ {s}
  /\ IF After(p) = "done" THEN SysExit ELSE Goto(After(p))
  /\ UNCHANGED <<env, pputils_path, pystr, areaBlock, engineArgs, direct, via,
                 stdout>>

\* lines 118-125
CallBuilder == CallHelper(Builder, "builder")

BuilderExit == ChildExit(Builder, "builder")

\* lines 128-151: np.loadtxt raises when areas_file names no file; open(..., 'a')
\* creates mesh.poly when gis2triangle.py wrote none
AppendAreas ==
  /\ pc = "areas"
  /\ IF areas_file # AreasCsv
     THEN /\ Raise("IOError")
          /\ UNCHANGED <<files, areaBlock, log>>
     ELSE LET areas_data == LoadTxt(areasLines)
              num_areas == NumAreas(areasLines)
              w == WriteRecords(num_areas, areas_data)
          IN  /\ files' = files \cup {PolyFile}
              /\ areaBlock' = <<[count |-> num_areas, recs |-> w.recs]>>
              /\ log' = Append(log, Ev("append", "", PolyFile))
              /\ IF w.err THEN Raise("IndexError") ELSE Goto(After("areas"))
  /\ UNCHANGED <<env, pputils_path, pystr, running, polyBuilt, engineArgs,
                 direct, via, result, stdout>>

\* lines 154-174
RunEngine ==
  /\ pc = "engine"
  /\ LET bin == BinaryFor(platform)
     IN  CASE bin = "exit" ->
               /\ stdout' = "os"
               /\ SysExit
               /\ UNCHANGED <<running, engineArgs, log>>
           [] bin = "skip" ->
               /\ Goto(After("engine"))
               /\ UNCHANGED <<running, engineArgs, log, stdout>>
           [] OTHER ->
               /\ running' = running \cup {Engine}
               /\ engineArgs' = "-Dqa"
               /\ log' = Append(log, Ev("start", Engine, ""))
               /\ Goto(WaitPc("engine"))
               /\ stdout' = stdout
  /\ UNCHANGED <<env, pputils_path, pystr, files, polyBuilt, areaBlock, direct,
                 via, result>>

EngineExit == ChildExit(Engine, "engine")

\* lines 178-183
CallConverter == CallHelper(Converter, "convert")

ConverterExit == ChildExit(Converter, "convert")

\* the number of leading files of q that exist
RECURSIVE Existing(_)
Existing(q) ==
  IF q = <<>> \/ Head(q) \notin files THEN 0 ELSE 1 + Existing(Tail(q))

\* lines 186-189: os.remove raises OSError on the first file that is missing
Cleanup ==
  /\ pc = "cleanup"
  /\ LET k == Existing(TempFiles)
     IN  /\ files' = files \ {TempFiles[i] : i \in 1..k}
         /\ log' = log \o [i \in 1..k |-> Ev("remove", "", TempFiles[i])]
         /\ IF k < Len(TempFiles) THEN Raise("OSError") ELSE Goto(After("cleanup"))
  /\ UNCHANGED <<env, pputils_path, pystr, running, polyBuilt, areaBlock,
                 engineArgs, direct, via, result, stdout>>

\* lines 196-199
CallVector == CallHelper(Vector, "wkt")

\* the last child terminates and the script runs off its end: exit status 0
VectorExit == ChildExit(Vector, "wkt")

Next ==
  \/ Setup
  \/ CheckArgs
  \/ CallBuilder
  \/ BuilderExit
  \/ AppendAreas
  \/ RunEngine
  \/ EngineExit
  \/ CallConverter
  \/ ConverterExit
  \/ Cleanup
  \/ CallVector
  \/ VectorExit

Spec == Init /\ [][Next]_vars

----------------------------------------------------------------------------
\* Vocabulary of the properties.

Started(s) == \E i \in 1..Len(log) : log[i] = Ev("start", s, "")

Exited(s) == \E i \in 1..Len(log) : log[i] = Ev("exit", s, "")

Removed == {log[i].file : i \in {j \in 1..Len(log) : log[j].ev = "remove"}}

Intermediates == {"mesh.poly", "mesh.1.poly", "mesh.1.node", "mesh.1.ele"}

\* the stage an intermediate file is handed to
Consumer(f) == IF f = "mesh.poly" THEN Engine ELSE Converter

\* the data rows of the areas listing, in listing order
DataRows == SelectSeq(areasLines, LAMBDA l : l \in Rows)

\* position of a step in the pipeline order
Rank(e) ==
  CASE e.ev = "append" -> 2
    [] e.who = Builder -> 1
    [] e.who = Engine -> 3
    [] e.who = Converter -> 4
    [] e.who = Vector -> 5

IsStep(e) == e.ev \in {"start", "append"}

AllOk == \A s \in Stages : result[s] = "ok"

SomeStageFailed == \E s \in {Builder, Engine, Converter} : result[s] = "fail"

----------------------------------------------------------------------------
\* The properties.

\* C1: once Triangle has ended in failure (nonzero status, no mesh.1.node and
\* mesh.1.ele), triangle2adcirc and adcirc2wkt are never started and no target
\* mesh file exists.
EngineFailureAborts ==
  result[Engine] = "fail" =>
    /\ ~Started(Converter)
    /\ ~Started(Vector)
    /\ OutputFile \notin files

\* C2: once gis2triangle has rejected its input, Triangle is never started.
BuilderRejectionStopsRun == result[Builder] = "fail" => ~Started(Engine)

\* C3: on a platform for which the dispatch has no Triangle binary, neither
\* triangle2adcirc nor adcirc2wkt is ever started.
UnsupportedPlatformAborts ==
  BinaryFor(platform) \in {"skip", "exit"} =>
    /\ ~Started(Converter)
    /\ ~Started(Vector)

\* C4: for a listing with n >= 1 data rows, once the area block is appended it
\* is the count n and the n records with IDs 1..n carrying the rows in listing
\* order.
AreaBlockMatchesListing ==
  (areaBlock # <<>> /\ Len(DataRows) >= 1) =>
    areaBlock[1] =
      [count |-> Len(DataRows),
       recs |-> [i \in 1..Len(DataRows) |->
                   AreaRec(i, DataRows[i][1], DataRows[i][2], DataRows[i][3])]]

\* C5: a run with the wrong number of arguments ends with the usage message
\* and a nonzero exit status, having started no stage and touched no file; a
\* run ends with exit status 0 only after the whole pipeline has run.
BadArgumentsExitNonzero ==
  pc = "done" =>
    /\ argc # ArgcExpected =>
         /\ stdout = "usage"
         /\ exitStatus # 0
         /\ log = <<>>
         /\ files = {}
    /\ exitStatus = 0 => \A s \in Stages : Exited(s)

\* C6: with 'none' for the areas, the run does not fail at the areas step, no
\* area record is appended, and Triangle is not asked for area constraints.
NoneAreasProceeds ==
  (areas_file = NoneToken /\ argc = ArgcExpected) =>
    /\ exc # "IOError"
    /\ (areaBlock # <<>> => areaBlock[1].recs = <<>>)
    /\ engineArgs \in {"", "-Dq"}

\* C7: on a run in which every stage succeeded, an intermediate file is removed
\* only after the stage it is handed to, and every stage that read it, has
\* terminated; no intermediate file exists at the end; and adcirc2wkt read
\* the target mesh file only.
CleanupAfterConsumers ==
  AllOk =>
    /\ \A i \in 1..Len(log) :
         log[i].ev = "remove" =>
           /\ \E k \in 1..(i - 1) : log[k] = Ev("exit", Consumer(log[i].file), "")
           /\ \A j \in 1..Len(log) :
                (log[j].ev = "read" /\ log[j].file = log[i].file) =>
                  \E k \in 1..(i - 1) : log[k] = Ev("exit", log[j].who, "")
    /\ files \cap Intermediates = {}
    /\ Intermediates \subseteq Removed
    /\ \A j \in 1..Len(log) :
         (log[j].ev = "read" /\ log[j].who = Vector) => log[j].file = OutputFile

CleanupAfterConsumersWitness ==
  /\ AllOk
  /\ pc = "done"
  /\ Removed = Intermediates
  /\ \E j \in 1..Len(log) : log[j] = Ev("read", Vector, OutputFile)
  /\ \E j \in 1..Len(log) : log[j] = Ev("read", Engine, "mesh.poly")

\* C8: in an execution in which gis2triangle, Triangle or triangle2adcirc has
\* failed, the script removes no intermediate file.
FailureLeavesFiles == SomeStageFailed => Removed = {}

FallbackAlwaysAvailable ==
  \A h \in Helpers : direct[h] = "raised" => via[h] = "interp"

====
